---- MODULE Spec2Model ----
(***************************************************************************)
(* Model of TikTokApi/api/video.py: the Video entity, its page-state       *)
(* extraction (Video.info), its field derivation (__extract_from_data)     *)
(* and its media retrieval (Video.bytes, whole-body and streaming).        *)
(*                                                                         *)
(* Python values are tagged records [t, v]:                                *)
(*   None        [t |-> "none", v |-> 0]                                   *)
(*   str         [t |-> "str",  v |-> "..."]                               *)
(*   int         [t |-> "int",  v |-> n]                                   *)
(*   dict        [t |-> "dict", v |-> << <<key, value>>, ... >>]  ordered  *)
(*   list        [t |-> "list", v |-> << value, ... >>]                    *)
(*   datetime    [t |-> "datetime", v |-> n]                               *)
(* Byte strings are sequences of integers.                                 *)
(***************************************************************************)
EXTENDS Integers, Sequences, FiniteSets, TLC

VARIABLES
    pc,               \* position of the caller: "new", "idle", "loop", "done", "failed"
    vid,              \* self.id
    vurl,             \* self.url
    as_dict,          \* self.as_dict
    create_time,      \* self.create_time
    stats,            \* self.stats
    author,           \* self.author
    sound,            \* self.sound
    hashtags,         \* self.hashtags
    session_headers,  \* session.headers (a mapping shared by all calls on the session)
    session_cookies,  \* the session's cookie jar
    r,                \* the page response of the running / last Video.info call
    scanned,          \* the markers Video.info searched r.text for, in order
    ret,              \* outcome of the last call: returned value or raised exception
    stream,           \* argument stream of the running / last Video.bytes call
    urls,             \* local urls of Video.bytes
    i,                \* position of the for loop of Video.bytes in urls (1-based)
    attempts,         \* the responses received in this Video.bytes call, in order
    gen_pc,           \* position of the generator stream_bytes
    first,            \* local first of Video.bytes (the peeked chunk)
    chunks,           \* what is left of the running aiter_bytes() iteration of stream_bytes
    vsg_pc,           \* position of the generator valid_stream_generator
    yielded,          \* the chunks the caller received from the returned generator
    set_cookie_calls, \* the arguments of the set_session_cookies calls of the last Video.info call
    conns,            \* the connection scope of each request of this Video.bytes call: "open", "released"
    caller,           \* what the caller does with the returned generator:
                      \* "none", "consuming", "stopped", "closed", "dropped"
    listing,          \* the running listing generator: "comments", "related_videos", "none"
    count,            \* argument count of the listing generator
    cursor,           \* local cursor of Video.comments
    found,            \* local found of the listing generator
    page_resp,        \* local resp of the listing generator
    pending,          \* what the for loop of the listing generator has not visited yet
    emitted,          \* the items the caller received from the listing generator
    fn_arg,           \* argument of the function applied on its own
    fn_out            \* its result

vars ==
    << pc, vid, vurl, as_dict, create_time, stats, author, sound, hashtags,
       session_headers, session_cookies, r, scanned, ret, stream, urls, i,
       attempts, gen_pc, first, chunks, vsg_pc, yielded, set_cookie_calls,
       conns, caller, listing, count, cursor, found, page_resp, pending,
       emitted, fn_arg, fn_out >>

videoVars ==
    << vid, vurl, as_dict, create_time, stats, author, sound, hashtags >>

infoVars ==
    << r, scanned, set_cookie_calls >>

bytesVars ==
    << stream, urls, i, attempts, gen_pc, first, chunks, vsg_pc, yielded,
       conns, caller >>

listVars ==
    << listing, count, cursor, found, page_resp, pending, emitted >>

fnVars ==
    << fn_arg, fn_out >>

(***************************************************************************)
(* Bounds                                                                  *)
(***************************************************************************)
MaxUrls ==
    3

(***************************************************************************)
(* Python values                                                           *)
(***************************************************************************)
None ==
    [t |-> "none", v |-> 0]

Str(s) ==
    [t |-> "str", v |-> s]

Num(n) ==
    [t |-> "int", v |-> n]

Dict(pairs) ==
    [t |-> "dict", v |-> pairs]

List(items) ==
    [t |-> "list", v |-> items]

Datetime(n) ==
    [t |-> "datetime", v |-> n]

Unset ==
    [t |-> "unset", v |-> 0]

IsDict(x) ==
    x.t = "dict"

IsList(x) ==
    x.t = "list"

IsStr(x) ==
    x.t = "str"

IsNone(x) ==
    x.t = "none"

\* key in d
HasKey(d, key) ==
    \E n \in 1..Len(d.v) : d.v[n][1] = key

\* d[key] for a key that is present (a JSON object decoded by json.loads
\* keeps one entry per key)
Lookup(d, key) ==
    LET n == CHOOSE n \in 1..Len(d.v) : d.v[n][1] = key
    IN  d.v[n][2]

\* d.get(key, default)
Get(d, key, default) ==
    IF HasKey(d, key) THEN Lookup(d, key) ELSE default

Min(a, b) ==
    IF a < b THEN a ELSE b

\* needle in hay, for byte strings and token sequences
Contains(needle, hay) ==
    \E n \in 0..(Len(hay) - Len(needle)) :
        SubSeq(hay, n + 1, n + Len(needle)) = needle

\* s[:n]
Prefix(s, n) ==
    SubSeq(s, 1, Min(n, Len(s)))

RECURSIVE Flatten(_)
\* b"".join(parts)
Flatten(parts) ==
    IF parts = << >> THEN << >>
    ELSE Head(parts) \o Flatten(Tail(parts))

(***************************************************************************)
(* extract_url_lists                                                       *)
(***************************************************************************)
RECURSIVE extract_url_lists(_)
RECURSIVE ExtractItems(_)
RECURSIVE ExtractElems(_)

\* the for loop over data.items()
ExtractItems(pairs) ==
    IF pairs = << >> THEN << >>
    ELSE LET key == Head(pairs)[1]
             value == Head(pairs)[2]
             here == IF key = "downloadAddr" /\ IsStr(value)
                     THEN << value.v >>
                     ELSE extract_url_lists(value)
         IN  here \o ExtractItems(Tail(pairs))

\* the for loop over the items of a list
ExtractElems(items) ==
    IF items = << >> THEN << >>
    ELSE extract_url_lists(Head(items)) \o ExtractElems(Tail(items))

\* the function without its branch for lists
ExtractUrlListsMappingsOnly(data) ==
    IF IsDict(data) THEN ExtractItems(data.v) ELSE << >>

extract_url_lists(data) ==
    IF IsDict(data) THEN ExtractItems(data.v)
    ELSE IF IsList(data) THEN ExtractElems(data.v)
    ELSE << >>

(***************************************************************************)
(* Outcomes of a call: a returned value or a raised exception              *)
(***************************************************************************)
NoRet ==
    [kind |-> "none", exc |-> "", code |-> 0, value |-> None]

Return(x) ==
    [kind |-> "return", exc |-> "", code |-> 0, value |-> x]

\* an exception of class e; code is the error_code argument of
\* InvalidResponseException and 0 for the other classes
Raise(e, code) ==
    [kind |-> "raise", exc |-> e, code |-> code, value |-> None]

(***************************************************************************)
(* Video.__extract_from_data                                               *)
(***************************************************************************)
\* the decimal strings that occur in the modelled items, with their values
IntLiteral ==
    [s \in {"1700000000", "7"} |-> IF s = "7" THEN 7 ELSE 1700000000]

\* int(x) for a value x that is not None
PyInt(x) ==
    IF x.t = "int" THEN [exc |-> "", v |-> x]
    ELSE IF x.t = "str"
         THEN IF x.v \in DOMAIN IntLiteral
              THEN [exc |-> "", v |-> Num(IntLiteral[x.v])]
              ELSE [exc |-> "ValueError", v |-> x]
         ELSE [exc |-> "TypeError", v |-> x]

\* datetime.fromtimestamp(x)
FromTimestamp(x) ==
    IF x.t = "int" THEN [exc |-> "", v |-> Datetime(x.v)]
    ELSE [exc |-> "TypeError", v |-> x]

\* bool(x)
Truthy(x) ==
    CASE x.t = "none" -> FALSE
      [] x.t = "str" -> x.v # ""
      [] x.t = "int" -> x.v # 0
      [] x.t = "dict" -> Len(x.v) > 0
      [] x.t = "list" -> Len(x.v) > 0
      [] OTHER -> TRUE

\* a or b
PyOr(a, b) ==
    IF Truthy(a) THEN a ELSE b

\* the factories of the parent api object (user, sound, hashtag)
User(kw, x) ==
    [t |-> "User", v |-> << kw, x >>]

Sound(data) ==
    [t |-> "Sound", v |-> data]

Hashtag(data) ==
    [t |-> "Hashtag", v |-> data]

\* f"https://www.tiktok.com/@{author}/video/{id}"
VideoUrl(a, id) ==
    [t |-> "videourl", v |-> << a, id >>]

\* the fields of the Video object
Self ==
    [id |-> vid, url |-> vurl, as_dict |-> as_dict, create_time |-> create_time,
     stats |-> stats, author |-> author, sound |-> sound, hashtags |-> hashtags]

\* result of a method body: the exception it raised ("" for none) and the
\* fields of the object when it stopped
Stopped(e, self) ==
    [exc |-> e, self |-> self]

\* lines 286-299, after create_time is set
ExtractRest(self, data) ==
    LET s1 == [self EXCEPT !.stats = PyOr(Get(data, "statsV2", None),
                                          Get(data, "stats", None))]
        a == Get(data, "author", None)
        s2 == [s1 EXCEPT !.author = IF IsStr(a) THEN User("username", a)
                                    ELSE User("data", a)]
        s3 == [s2 EXCEPT !.sound = Sound(data)]
        ch == Get(data, "challenges", List(<< >>))
    IN  IF ~IsList(ch) THEN Stopped("TypeError", s3)
        ELSE LET s4 == [s3 EXCEPT !.hashtags =
                            [n \in 1..Len(ch.v) |-> Hashtag(ch.v[n])]]
                 s5 == [s4 EXCEPT !.url = VideoUrl(s4.author, s4.id)]
             IN  Stopped("", s5)

\* lines 278-285: the value handed to datetime.fromtimestamp, or the
\* exception int() let through
Timestamp(data) ==
    LET timestamp == Get(data, "createTime", None)
    IN  IF ~IsNone(timestamp)
        THEN LET c == PyInt(timestamp)
             IN  IF c.exc = "" THEN c
                 ELSE IF c.exc = "ValueError" THEN [exc |-> "", v |-> timestamp]
                 ELSE c
        ELSE [exc |-> "", v |-> timestamp]

ExtractFromData(self) ==
    LET data == self.as_dict
    IN  IF ~IsDict(data) THEN Stopped("TypeError", self)
        ELSE IF ~HasKey(data, "id") THEN Stopped("KeyError", self)
        ELSE LET s1 == [self EXCEPT !.id = Lookup(data, "id")]
                 ts == Timestamp(data)
             IN  IF ts.exc # "" THEN Stopped(ts.exc, s1)
                 ELSE LET dt == FromTimestamp(ts.v)
                      IN  IF dt.exc # "" THEN Stopped(dt.exc, s1)
                          ELSE ExtractRest([s1 EXCEPT !.create_time = dt.v], data)

\* the fields of the object are set from a record
SetSelf(self) ==
    /\ vid' = self.id
    /\ vurl' = self.url
    /\ as_dict' = self.as_dict
    /\ create_time' = self.create_time
    /\ stats' = self.stats
    /\ author' = self.author
    /\ sound' = self.sound
    /\ hashtags' = self.hashtags

(***************************************************************************)
(* Video.__init__                                                          *)
(***************************************************************************)
\* helpers.extract_video_id_from_url: the id that the video url carries
extract_video_id_from_url(url) ==
    IF url.t = "videourl" THEN url.v[2] ELSE None

\* the object as __init__(id, url, data) leaves it, and the exception it
\* raised ("" when the object is constructed)
Construct(id, url, data) ==
    LET s0 == [id |-> id, url |-> url, as_dict |-> Unset, create_time |-> Unset,
               stats |-> Unset, author |-> Unset, sound |-> Unset,
               hashtags |-> Unset]
        s1 == IF ~IsNone(data)
              THEN ExtractFromData([s0 EXCEPT !.as_dict = data])
              ELSE IF ~IsNone(url)
                   THEN Stopped("", [s0 EXCEPT !.id = extract_video_id_from_url(url)])
                   ELSE Stopped("", s0)
    IN  IF s1.exc # "" THEN s1
        ELSE IF IsNone(s1.self.id) THEN Stopped("TypeError", s1.self)
        ELSE s1

(***************************************************************************)
(* Pages: the text of a page is a sequence of tokens, each a piece of text *)
(* (a marker or other markup) or the text of one JSON document             *)
(***************************************************************************)
Text(s) ==
    [t |-> "text", v |-> s]

Json(tree) ==
    [t |-> "json", v |-> tree]

SigiOpen ==
    Text("<script id=\"SIGI_STATE\" type=\"application/json\">")

RehydrationOpen ==
    Text("<script id=\"__UNIVERSAL_DATA_FOR_REHYDRATION__\" type=\"application/json\">")

ScriptClose ==
    Text("</script>")

\* r.text.find(marker, from): the position of the first occurrence of marker
\* at or after position from (1-based), 0 when there is none (-1 in Python)
Find(text, marker, from) ==
    IF \E n \in from..Len(text) : text[n] = marker
    THEN CHOOSE n \in from..Len(text) :
            /\ text[n] = marker
            /\ \A m \in from..(n - 1) : text[m] # marker
    ELSE 0

\* json.loads(text[start:end]): one JSON document and nothing else decodes
JsonLoads(tokens) ==
    IF Len(tokens) = 1 /\ tokens[1].t = "json"
    THEN [exc |-> "", v |-> tokens[1].v]
    ELSE [exc |-> "JSONDecodeError", v |-> None]

\* result of the parsing part of Video.info: the exception raised ("" for
\* none) with its error_code, the item found, the markers searched for
Parsed(e, code, item, scans) ==
    [exc |-> e, code |-> code, item |-> item, scans |-> scans]

\* data["ItemModule"][self.id]
LegacyItem(data, id) ==
    IF ~IsDict(data) THEN [exc |-> "TypeError", v |-> None]
    ELSE IF ~HasKey(data, "ItemModule") THEN [exc |-> "KeyError", v |-> None]
    ELSE LET m == Lookup(data, "ItemModule")
         IN  IF ~IsDict(m) THEN [exc |-> "TypeError", v |-> None]
             ELSE IF IsStr(id) /\ HasKey(m, id.v)
                  THEN [exc |-> "", v |-> Lookup(m, id.v)]
                  ELSE [exc |-> "KeyError", v |-> None]

\* lines 149-159 without the statusCode check
RehydrationItemAnyStatus(data) ==
    IF ~IsDict(data) THEN [exc |-> "AttributeError", v |-> None]
    ELSE LET default_scope == Get(data, "__DEFAULT_SCOPE__", Dict(<< >>))
         IN  IF ~IsDict(default_scope) THEN [exc |-> "AttributeError", v |-> None]
             ELSE LET video_detail == Get(default_scope, "webapp.video-detail", Dict(<< >>))
                  IN  IF ~IsDict(video_detail)
                      THEN [exc |-> "AttributeError", v |-> None]
                      ELSE LET item_info == Get(video_detail, "itemInfo", Dict(<< >>))
                           IN  IF ~IsDict(item_info)
                               THEN [exc |-> "AttributeError", v |-> None]
                               ELSE LET video_info == Get(item_info, "itemStruct", None)
                                    IN  IF IsNone(video_info)
                                        THEN [exc |-> "InvalidResponseException", v |-> None]
                                        ELSE [exc |-> "", v |-> video_info]

\* lines 149-159
RehydrationItem(data) ==
    IF ~IsDict(data) THEN [exc |-> "AttributeError", v |-> None]
    ELSE LET default_scope == Get(data, "__DEFAULT_SCOPE__", Dict(<< >>))
         IN  IF ~IsDict(default_scope) THEN [exc |-> "AttributeError", v |-> None]
             ELSE LET video_detail == Get(default_scope, "webapp.video-detail", Dict(<< >>))
                  IN  IF ~IsDict(video_detail)
                      THEN [exc |-> "AttributeError", v |-> None]
                      ELSE IF Get(video_detail, "statusCode", Num(0)) # Num(0)
                      THEN [exc |-> "InvalidResponseException", v |-> None]
                      ELSE LET item_info == Get(video_detail, "itemInfo", Dict(<< >>))
                           IN  IF ~IsDict(item_info)
                               THEN [exc |-> "AttributeError", v |-> None]
                               ELSE LET video_info == Get(item_info, "itemStruct", None)
                                    IN  IF IsNone(video_info)
                                        THEN [exc |-> "InvalidResponseException", v |-> None]
                                        ELSE [exc |-> "", v |-> video_info]

\* lines 116-128
ParseLegacy(page, id, start0) ==
    LET start == start0 + 1
        end == Find(page.text, ScriptClose, start)
        scans == << SigiOpen, ScriptClose >>
    IN  IF end = 0
        THEN Parsed("InvalidResponseException", page.status, None, scans)
        ELSE LET data == JsonLoads(SubSeq(page.text, start, end - 1))
             IN  IF data.exc # "" THEN Parsed(data.exc, 0, None, scans)
                 ELSE LET video_info == LegacyItem(data.v, id)
                      IN  Parsed(video_info.exc, 0, video_info.v, scans)

\* lines 129-159
ParseRehydration(page) ==
    LET start0 == Find(page.text, RehydrationOpen, 1)
        start == start0 + 1
        end == Find(page.text, ScriptClose, start)
    IN  IF start0 = 0
        THEN Parsed("InvalidResponseException", page.status, None,
                    << SigiOpen, RehydrationOpen >>)
        ELSE IF end = 0
        THEN Parsed("InvalidResponseException", page.status, None,
                    << SigiOpen, RehydrationOpen, ScriptClose >>)
        ELSE LET scans == << SigiOpen, RehydrationOpen, ScriptClose >>
                 data == JsonLoads(SubSeq(page.text, start, end - 1))
             IN  IF data.exc # "" THEN Parsed(data.exc, 0, None, scans)
                 ELSE LET video_info == RehydrationItem(data.v)
                      IN  Parsed(video_info.exc,
                                 IF video_info.exc = "InvalidResponseException"
                                 THEN page.status ELSE 0,
                                 video_info.v, scans)

\* lines 107-159: from the fetched page to video_info
ParsePage(page, id) ==
    IF page.status # 200
    THEN Parsed("InvalidResponseException", page.status, None, << >>)
    ELSE LET start == Find(page.text, SigiOpen, 1)
         IN  IF start # 0 THEN ParseLegacy(page, id, start)
             ELSE ParseRehydration(page)

(***************************************************************************)
(* Inputs: items                                                           *)
(***************************************************************************)
Absent ==
    [t |-> "absent", v |-> 0]

\* one entry of a JSON object, or none when the field is absent
Field(key, x) ==
    IF x.t = "absent" THEN << >> ELSE << << key, x >> >>

MakeItem(id, createTime, a, statsV2, st, challenges, video) ==
    Dict(Field("id", id) \o Field("createTime", createTime) \o Field("author", a)
         \o Field("statsV2", statsV2) \o Field("stats", st)
         \o Field("challenges", challenges) \o Field("video", video))

Ids ==
    {"v1", "v2"}

AuthorName ==
    Str("alice")

AuthorObject ==
    Dict(<< << "uniqueId", Str("alice") >> >>)

StatsObject ==
    Dict(<< << "diggCount", Num(7) >> >>)

StatsV2Object ==
    Dict(<< << "diggCount", Str("7") >> >>)

Challenges ==
    List(<< Dict(<< << "title", Str("fyp") >> >>) >>)

VideoObject ==
    Dict(<< << "downloadAddr", Str("u1") >> >>)

ItemFull ==
    MakeItem(Str("v1"), Num(1700000000), AuthorName, Absent, StatsObject,
             Challenges, VideoObject)

ItemStrTime ==
    MakeItem(Str("v1"), Str("1700000000"), AuthorObject, StatsV2Object,
             StatsObject, Absent, VideoObject)

ItemNoTime ==
    MakeItem(Str("v1"), Absent, AuthorName, Absent, StatsObject, Absent, VideoObject)

ItemBadTime ==
    MakeItem(Str("v1"), Str("soon"), AuthorName, Absent, Absent, Absent, Absent)

ItemNoId ==
    MakeItem(Absent, Num(7), AuthorName, Absent, Absent, Absent, VideoObject)

ItemNullId ==
    MakeItem(None, Num(7), AuthorObject, Absent, Absent, Absent, Absent)

\* the items that pages carry
PageItems ==
    {ItemFull, ItemStrTime, ItemNoTime, ItemBadTime, ItemNoId, ItemNullId}

\* the items handed to the constructor as data
DataItems ==
    { MakeItem(id, ct, a, s[1], s[2], ch, Absent) :
        id \in {Absent, None, Str("v1"), Str("v2")},
        ct \in {Absent, None, Num(1700000000), Num(7), Str("1700000000"),
                Str("soon"), List(<< >>)},
        a \in {Absent, AuthorName, AuthorObject},
        s \in {<< Absent, Absent >>, << Absent, StatsObject >>,
               << StatsV2Object, StatsObject >>, << Dict(<< >>), StatsObject >>},
        ch \in {Absent, Challenges, None} }

(***************************************************************************)
(* Inputs: pages                                                           *)
(***************************************************************************)
MaxBlocks ==
    2

Page(status, text, cookies) ==
    [status |-> status, text |-> text, cookies |-> cookies]

\* requests.get raised instead of returning a page
NoPage ==
    Page(0, << >>, {})

LegacyPayloads ==
    {Dict(<< >>), List(<< >>), Dict(<< << "ItemModule", Dict(<< >>) >> >>)}
    \cup { Dict(<< << "ItemModule", Dict(<< << "v1", x >> >>) >> >>) : x \in PageItems }

VideoDetail(statusCode, itemInfo) ==
    Dict(<< << "__DEFAULT_SCOPE__",
               Dict(<< << "webapp.video-detail",
                          Dict(Field("statusCode", statusCode)
                               \o Field("itemInfo", itemInfo)) >> >>) >> >>)

ItemInfos ==
    {Absent, None, Dict(<< << "itemStruct", None >> >>)}
    \cup { Dict(<< << "itemStruct", x >> >>) : x \in PageItems }

RehydrationPayloads ==
    {Dict(<< >>), List(<< >>), Dict(<< << "__DEFAULT_SCOPE__", Dict(<< >>) >> >>)}
    \cup { VideoDetail(Num(0), ii) : ii \in ItemInfos }
    \cup { VideoDetail(Absent, ii) :
             ii \in {Absent, Dict(<< << "itemStruct", ItemFull >> >>),
                     Dict(<< << "itemStruct", ItemNoTime >> >>)} }
    \cup { VideoDetail(Num(10204), ii) :
             ii \in {Absent, Dict(<< << "itemStruct", ItemFull >> >>)} }

\* one script element, well-formed or not, or a piece of other markup
Blocks ==
    { << SigiOpen, Json(x), ScriptClose >> : x \in LegacyPayloads }
    \cup { << RehydrationOpen, Json(x), ScriptClose >> : x \in RehydrationPayloads }
    \cup { << open, Text("{\"ItemModule\": {") , ScriptClose >> :
             open \in {SigiOpen, RehydrationOpen} }
    \cup { << open, ScriptClose >> : open \in {SigiOpen, RehydrationOpen} }
    \cup { << SigiOpen,
               Json(Dict(<< << "ItemModule", Dict(<< << "v1", ItemFull >> >>) >> >>)) >>,
             << RehydrationOpen,
               Json(VideoDetail(Num(0), Dict(<< << "itemStruct", ItemFull >> >>))) >> }
    \cup { << Text("<html>") >> }

RECURSIVE Texts(_)
\* the texts made of at most n blocks
Texts(n) ==
    IF n = 0 THEN { << >> }
    ELSE LET shorter == Texts(n - 1)
         IN  shorter \cup { b \o t : b \in Blocks, t \in shorter }

CookieSets ==
    { {}, {"ttwid"} }

Pages ==
    { Page(200, t, c) : t \in Texts(MaxBlocks), c \in CookieSets }
    \cup { Page(404, t, {}) : t \in Texts(1) }

(***************************************************************************)
(* Video.info                                                              *)
(***************************************************************************)
\* parent.set_session_cookies(session, cookies): the cookies are added to
\* the jar of the session
set_session_cookies(jar, cookies) ==
    jar \cup cookies

\* the call made although __extract_from_data raised
InfoCookieCallsBeforeNormalization(exc, cookies) ==
    << cookies >>

\* the set_session_cookies calls of one Video.info call whose page was
\* parsed: line 166 is reached when __extract_from_data (line 162) returned
InfoCookieCalls(exc, cookies) ==
    IF exc = "" THEN << cookies >> ELSE << >>

\* page is the response of requests.get(self.url, ...), NoPage when the
\* request raised
InfoCall(page) ==
    /\ pc = "idle"
    /\ pc' = "done"
    /\ UNCHANGED << session_headers, bytesVars, listVars, fnVars >>
    /\ IF IsNone(vurl)
       THEN /\ ret' = Raise("TypeError", 0)
            /\ r' = NoPage
            /\ scanned' = << >>
            /\ set_cookie_calls' = << >>
            /\ UNCHANGED << videoVars, session_cookies >>
       ELSE IF page = NoPage
       THEN /\ ret' = Raise("ConnectionError", 0)
            /\ r' = NoPage
            /\ scanned' = << >>
            /\ set_cookie_calls' = << >>
            /\ UNCHANGED << videoVars, session_cookies >>
       ELSE LET p == ParsePage(page, vid)
            IN  /\ r' = page
                /\ scanned' = p.scans
                /\ IF p.exc # ""
                   THEN /\ ret' = Raise(p.exc, p.code)
                        /\ set_cookie_calls' = << >>
                        /\ UNCHANGED << videoVars, session_cookies >>
                   ELSE LET n == ExtractFromData([Self EXCEPT !.as_dict = p.item])
                            calls == InfoCookieCalls(n.exc, page.cookies)
                        IN  /\ SetSelf(n.self)
                            /\ set_cookie_calls' = calls
                            /\ session_cookies' =
                                 IF calls = << >> THEN session_cookies
                                 ELSE set_session_cookies(session_cookies, calls[1])
                            /\ ret' = IF n.exc # "" THEN Raise(n.exc, 0)
                                      ELSE Return(p.item)

(***************************************************************************)
(* The constructor as an operation                                         *)
(***************************************************************************)
New(id, url, data) ==
    LET n == Construct(id, url, data)
    IN  /\ pc = "new"
        /\ SetSelf(n.self)
        /\ pc' = IF n.exc = "" THEN "idle" ELSE "failed"
        /\ ret' = IF n.exc = "" THEN Return(None) ELSE Raise(n.exc, 0)
        /\ UNCHANGED << session_headers, session_cookies, infoVars, bytesVars,
                        listVars, fnVars >>

\* no listing generator is running
InitList ==
    /\ listing = "none"
    /\ count = 0
    /\ cursor = Num(0)
    /\ found = 0
    /\ page_resp = None
    /\ pending = << >>
    /\ emitted = << >>

\* no function is applied on its own
InitFn ==
    /\ fn_arg = None
    /\ fn_out = None

\* the session and the locals of info and bytes before any call
InitCalls ==
    /\ session_headers = { << "user-agent", "Mozilla/5.0" >> }
    /\ session_cookies = {"msToken"}
    /\ r = NoPage
    /\ scanned = << >>
    /\ ret = NoRet
    /\ stream = FALSE
    /\ urls = << >>
    /\ i = 0
    /\ attempts = << >>
    /\ gen_pc = "none"
    /\ first = << >>
    /\ chunks = << >>
    /\ vsg_pc = "none"
    /\ yielded = << >>
    /\ set_cookie_calls = << >>
    /\ conns = << >>
    /\ caller = "none"

\* the session and the locals of the calls before any call
InitRest ==
    /\ InitCalls
    /\ InitList
    /\ InitFn

\* a Video object constructed with the given arguments
Constructed(id, url, data) ==
    LET n == Construct(id, url, data)
    IN  /\ n.exc = ""
        /\ vid = n.self.id
        /\ vurl = n.self.url
        /\ as_dict = n.self.as_dict
        /\ create_time = n.self.create_time
        /\ stats = n.self.stats
        /\ author = n.self.author
        /\ sound = n.self.sound
        /\ hashtags = n.self.hashtags

\* https://www.tiktok.com/@alice/video/<id>
PageUrl(id) ==
    VideoUrl(AuthorName, Str(id))

(***************************************************************************)
(* Specification of construction and field derivation                      *)
(***************************************************************************)
\* no Video object yet
NoVideo ==
    /\ vid = Unset
    /\ vurl = Unset
    /\ as_dict = Unset
    /\ create_time = Unset
    /\ stats = Unset
    /\ author = Unset
    /\ sound = Unset
    /\ hashtags = Unset

InitNew ==
    /\ pc = "new"
    /\ NoVideo
    /\ InitRest

NextNew ==
    /\ pc = "new"
    /\ \E id \in {None, Str("v1")}, url \in {None, PageUrl("v2")},
          data \in DataItems \cup {None} :
           New(id, url, data)

SpecNew ==
    InitNew /\ [][NextNew]_vars

(***************************************************************************)
(* Specification of Video.info: one call per behaviour, on an object       *)
(* constructed from a url, from an id alone, or from data                  *)
(***************************************************************************)
InitInfo ==
    /\ pc = "idle"
    /\ \/ \E id \in Ids : Constructed(None, PageUrl(id), None)
       \/ Constructed(Str("v1"), None, None)
       \/ Constructed(None, None, ItemFull)
    /\ InitRest

NextInfo ==
    /\ pc = "idle"
    /\ \E page \in Pages \cup {NoPage} : InfoCall(page)

SpecInfo ==
    InitInfo /\ [][NextInfo]_vars

(***************************************************************************)
(* Media validation                                                        *)
(***************************************************************************)
\* b'ftyp'
Ftyp ==
    << 102, 116, 121, 112 >>

PrefixLen ==
    32

\* the validation that searches the whole content: b'ftyp' not in content
NotVideoAnywhere(content) ==
    \/ Len(content) = 0
    \/ ~Contains(Ftyp, content)

\* the validation without its signature test: not content
NotVideoOnlyEmpty(content) ==
    Len(content) = 0

\* not content or b'ftyp' not in content[:32]
NotVideo(content) ==
    \/ Len(content) = 0
    \/ ~Contains(Ftyp, Prefix(content, PrefixLen))

(***************************************************************************)
(* Inputs: what the media servers answer                                   *)
(***************************************************************************)
\* a body of len bytes with b'ftyp' at offset off (none when off < 0),
\* whose last byte is tag
Body(off, len, tag) ==
    [n \in 1..len |->
        IF off >= 0 /\ n > off /\ n <= off + 4 THEN Ftyp[n - off]
        ELSE IF n = len THEN tag ELSE 0]

\* << offset of the signature, length >>
BodyShapes ==
    { << -1, 0 >>, << -1, 10 >>, << 4, 40 >>, << 28, 40 >>, << 29, 40 >> }

Headers(pairs) ==
    [t |-> "dict", v |-> pairs]

\* header values are sequences of words, so that "video" in value is a search
VideoHeaders ==
    Headers(<< << "Content-Type", << "video", "/", "mp4" >> >> >>)

HtmlHeaders ==
    Headers(<< << "Content-Type", << "text", "/", "html" >> >> >>)

NoHeaders ==
    Headers(<< >>)

Response(transport, status, headers, content) ==
    [transport |-> transport, status |-> status, headers |-> headers,
     content |-> content]

\* the request raised (connection reset, timeout) instead of answering
TransportError ==
    Response("error", 0, NoHeaders, << >>)

\* the answers to the k-th request of a call
Responses(k) ==
    {TransportError}
    \cup { Response("ok", 200, h, Body(sh[1], sh[2], k)) :
             h \in {VideoHeaders, HtmlHeaders, NoHeaders}, sh \in BodyShapes }
    \cup { Response("ok", 403, HtmlHeaders, Body(-1, 10, k)),
           Response("ok", 403, VideoHeaders, Body(4, 40, k)) }

AllUrlNames ==
    << "u1", "u2", "u3", "u4", "u5", "u6" >>

\* the video field of an item with n download addresses at different depths
VideoTree(n) ==
    Dict((IF n >= 1 THEN << << "downloadAddr", Str(AllUrlNames[1]) >> >> ELSE << >>)
         \o << << "bitrateInfo",
                  List([k \in 1..(IF n >= 1 THEN n - 1 ELSE 0) |->
                          Dict(<< << "PlayAddr",
                                     Dict(<< << "downloadAddr",
                                                Str(AllUrlNames[k + 1]) >> >>) >> >>)]) >> >>)

BytesItem(n) ==
    MakeItem(Str("v1"), Num(1700000000), AuthorName, Absent, StatsObject, Absent,
             VideoTree(n))

(***************************************************************************)
(* Video.bytes                                                             *)
(***************************************************************************)
Bytes(content) ==
    [t |-> "bytes", v |-> content]

\* the async generator valid_stream_generator(first, gen)
Generator ==
    [t |-> "generator", v |-> 0]

\* h[name] = value
SetHeader(h, name, value) ==
    { e \in h : e[1] # name } \cup { << name, value >> }

\* a handler that catches the library's own exception class only
ExceptInvalidResponseOnly(e) ==
    e = "InvalidResponseException"

\* except Exception: the classes the handlers of lines 252 and 270 catch
ExceptException(e) ==
    e \in {"InvalidResponseException", "StopIteration", "ConnectError",
           "ConnectionError"}

\* streamedResponse.aiter_bytes() after aread(): the content that was read,
\* as one chunk, from its beginning; nothing for an empty content
AiterBytes(content) ==
    IF Len(content) = 0 THEN << >> ELSE << content >>

\* the whole-body iteration without the Content-Type condition
WholeBodyProbeAnyType(resp) ==
    IF resp.transport = "error" THEN [kind |-> "raise", exc |-> "ConnectionError"]
    ELSE IF resp.status = 200
         THEN IF NotVideo(resp.content)
              THEN [kind |-> "raise", exc |-> "StopIteration"]
              ELSE [kind |-> "return", exc |-> ""]
         ELSE [kind |-> "raise", exc |-> "InvalidResponseException"]

\* what one iteration of the whole-body loop does with a response:
\* lines 260-269
WholeBodyProbe(resp) ==
    IF resp.transport = "error" THEN [kind |-> "raise", exc |-> "ConnectionError"]
    ELSE IF resp.status = 200
            /\ Contains(<< "video" >>, Get(resp.headers, "Content-Type", << >>))
         THEN IF NotVideo(resp.content)
              THEN [kind |-> "raise", exc |-> "StopIteration"]
              ELSE [kind |-> "return", exc |-> ""]
         ELSE [kind |-> "raise", exc |-> "InvalidResponseException"]

\* what the first __anext__() of stream_bytes() does with a response:
\* lines 208-229
StreamProbe(resp) ==
    IF resp.transport = "error"
    THEN [kind |-> "raise", exc |-> "ConnectError", chunk |-> << >>]
    ELSE IF resp.status # 200
    THEN [kind |-> "raise", exc |-> "InvalidResponseException", chunk |-> << >>]
    ELSE LET it == AiterBytes(resp.content)
             first_chunk == IF it = << >> THEN << >> ELSE Head(it)
         IN  IF NotVideo(first_chunk)
             THEN [kind |-> "stop", exc |-> "StopAsyncIteration", chunk |-> << >>]
             ELSE [kind |-> "yield", exc |-> "", chunk |-> first_chunk]

\* a loop that passes over the url after the rejected one
AdvanceSkip ==
    /\ i' = i + 2
    /\ IF i + 2 > Len(urls)
       THEN /\ pc' = "done"
            /\ ret' = Return(None)
       ELSE /\ pc' = "loop"
            /\ ret' = NoRet

\* continue, and the end of the function when the loop has no next url
Advance ==
    /\ i' = i + 1
    /\ IF i + 1 > Len(urls)
       THEN /\ pc' = "done"
            /\ ret' = Return(None)
       ELSE /\ pc' = "loop"
            /\ ret' = NoRet

\* lines 192-202, and the end of the function when urls is empty
BytesCall(s) ==
    /\ pc = "idle"
    /\ stream' = s
    /\ attempts' = << >>
    /\ conns' = << >>
    /\ UNCHANGED << videoVars, session_cookies, infoVars, gen_pc, first, chunks,
                    vsg_pc, yielded, caller, listVars, fnVars >>
    /\ IF as_dict = Unset
       THEN /\ pc' = "done"
            /\ ret' = Raise("AttributeError", 0)
            /\ UNCHANGED << urls, i, session_headers >>
       ELSE /\ urls' = extract_url_lists(as_dict)
            /\ session_headers' =
                 SetHeader(SetHeader(SetHeader(session_headers,
                     "range", "bytes=0-"),
                     "accept-encoding", "identity;q=1, *;q=0"),
                     "referer", "https://www.tiktok.com/")
            /\ i' = 1
            /\ IF urls' = << >>
               THEN /\ pc' = "done"
                    /\ ret' = Return(None)
               ELSE /\ pc' = "loop"
                    /\ ret' = NoRet

\* one iteration of the loop of lines 257-272
WholeBodyAttempt(resp) ==
    /\ pc = "loop"
    /\ ~stream
    /\ attempts' = Append(attempts, [url |-> urls[i], resp |-> resp])
    /\ conns' = Append(conns, "released")
    /\ UNCHANGED << videoVars, session_headers, session_cookies, infoVars, stream,
                    urls, gen_pc, first, chunks, vsg_pc, yielded, caller,
                    listVars, fnVars >>
    /\ LET o == WholeBodyProbe(resp)
       IN  IF o.kind = "return"
           THEN /\ ret' = Return(Bytes(resp.content))
                /\ pc' = "done"
                /\ UNCHANGED i
           ELSE IF ExceptException(o.exc)
           THEN Advance
           ELSE /\ ret' = Raise(o.exc, 0)
                /\ pc' = "done"
                /\ UNCHANGED i

\* one iteration of the loop of lines 204-254
StreamAttempt(resp) ==
    /\ pc = "loop"
    /\ stream
    /\ attempts' = Append(attempts, [url |-> urls[i], resp |-> resp])
    /\ UNCHANGED << videoVars, session_headers, session_cookies, infoVars, stream,
                    urls, chunks, yielded, listVars, fnVars >>
    /\ LET o == StreamProbe(resp)
       IN  IF o.kind = "yield"
           THEN /\ first' = o.chunk
                /\ gen_pc' = "yielded_first"
                /\ vsg_pc' = "created"
                /\ conns' = Append(conns, "open")
                /\ caller' = "consuming"
                /\ ret' = Return(Generator)
                /\ pc' = "done"
                /\ UNCHANGED i
           ELSE IF o.kind = "stop" \/ ExceptException(o.exc)
           THEN /\ Advance
                /\ conns' = Append(conns, "released")
                /\ UNCHANGED << first, gen_pc, vsg_pc, caller >>
           ELSE /\ ret' = Raise(o.exc, 0)
                /\ pc' = "done"
                /\ conns' = Append(conns, "released")
                /\ UNCHANGED << i, first, gen_pc, vsg_pc, caller >>

\* the response that the generator stream_bytes holds open
streamedResponse ==
    attempts[Len(attempts)].resp

\* one __anext__() of stream_bytes() after its first yield: lines 232-233.
\* The result is the chunk yielded (stop = TRUE when the generator ended)
\* and the iteration left.
GenNext ==
    LET it == IF gen_pc = "yielded_first"
              THEN AiterBytes(streamedResponse.content)
              ELSE chunks
    IN  IF it = << >>
        THEN [stop |-> TRUE, chunk |-> << >>, left |-> << >>]
        ELSE [stop |-> FALSE, chunk |-> Head(it), left |-> Tail(it)]

\* the caller takes the next chunk from the generator that bytes returned:
\* one __anext__() of valid_stream_generator, lines 245-248
NextChunk ==
    /\ pc = "done"
    /\ vsg_pc \in {"created", "forwarding"}
    /\ caller = "consuming"
    /\ UNCHANGED << pc, videoVars, session_headers, session_cookies, infoVars, ret,
                    stream, urls, i, attempts, first, caller, listVars, fnVars >>
    /\ IF vsg_pc = "created"
       THEN /\ yielded' = Append(yielded, first)
            /\ vsg_pc' = "forwarding"
            /\ UNCHANGED << gen_pc, chunks, conns >>
       ELSE LET g == GenNext
            IN  IF g.stop
                THEN /\ gen_pc' = "closed"
                     /\ vsg_pc' = "done"
                     /\ conns' = [conns EXCEPT ![Len(conns)] = "released"]
                     /\ UNCHANGED << yielded, chunks >>
                ELSE /\ gen_pc' = "in_rest"
                     /\ chunks' = g.left
                     /\ yielded' = Append(yielded, g.chunk)
                     /\ UNCHANGED << vsg_pc, conns >>

(***************************************************************************)
(* Specification of Video.bytes: one call per behaviour, in either mode,   *)
(* on an object whose item holds 0..MaxUrls download addresses, followed   *)
(* by the caller consuming the returned generator                          *)
(***************************************************************************)
InitBytes ==
    /\ pc = "idle"
    /\ \/ \E n \in 0..MaxUrls : Constructed(None, None, BytesItem(n))
       \/ Constructed(Str("v1"), None, None)
    /\ InitRest

NextBytes ==
    \/ \E s \in BOOLEAN : BytesCall(s)
    \/ /\ pc = "loop"
       /\ \E resp \in Responses(i) : WholeBodyAttempt(resp)
    \/ /\ pc = "loop"
       /\ \E resp \in Responses(i) : StreamAttempt(resp)
    \/ NextChunk

SpecBytes ==
    InitBytes /\ [][NextBytes]_vars

(***************************************************************************)
(* What the caller can do with the generator that Video.bytes returned,    *)
(* other than taking the next chunk. stream_bytes is suspended at a yield  *)
(* inside its two async with blocks (lines 208-209), whose exits release   *)
(* the client and the connection.                                          *)
(***************************************************************************)
\* the caller stops iterating and keeps the generator object
StopConsuming ==
    /\ pc = "done"
    /\ caller = "consuming"
    /\ vsg_pc \in {"created", "forwarding"}
    /\ caller' = "stopped"
    /\ UNCHANGED << pc, videoVars, session_headers, session_cookies, infoVars, ret,
                    stream, urls, i, attempts, gen_pc, first, chunks, vsg_pc,
                    yielded, conns, listVars, fnVars >>

\* the caller calls aclose() on the generator: valid_stream_generator ends
\* at its yield (lines 246, 248); it has no finally that closes gen
Aclose ==
    /\ pc = "done"
    /\ caller \in {"consuming", "stopped"}
    /\ vsg_pc \in {"created", "forwarding"}
    /\ caller' = "closed"
    /\ vsg_pc' = "closed"
    /\ UNCHANGED << pc, videoVars, session_headers, session_cookies, infoVars, ret,
                    stream, urls, i, attempts, gen_pc, first, chunks, yielded,
                    conns, listVars, fnVars >>

\* the caller drops its last reference to the generator, which is collected
DropGenerator ==
    /\ pc = "done"
    /\ caller \in {"consuming", "stopped"}
    /\ vsg_pc \in {"created", "forwarding"}
    /\ caller' = "dropped"
    /\ vsg_pc' = "collected"
    /\ UNCHANGED << pc, videoVars, session_headers, session_cookies, infoVars, ret,
                    stream, urls, i, attempts, gen_pc, first, chunks, yielded,
                    conns, listVars, fnVars >>

\* nothing refers to stream_bytes any more and it is still suspended
FinalizePending ==
    /\ vsg_pc \in {"closed", "collected"}
    /\ gen_pc \in {"yielded_first", "in_rest"}

\* the event loop closes the unreachable stream_bytes: GeneratorExit at its
\* yield (lines 229, 233) runs the exits of the async with blocks
Finalize ==
    /\ pc = "done"
    /\ FinalizePending
    /\ gen_pc' = "closed"
    /\ conns' = [conns EXCEPT ![Len(conns)] = "released"]
    /\ UNCHANGED << pc, videoVars, session_headers, session_cookies, infoVars, ret,
                    stream, urls, i, attempts, first, chunks, vsg_pc, yielded,
                    caller, listVars, fnVars >>

NextBytesCaller ==
    \/ NextBytes
    \/ StopConsuming
    \/ Aclose
    \/ DropGenerator
    \/ Finalize

SpecBytesCaller ==
    InitBytes /\ [][NextBytesCaller]_vars

(***************************************************************************)
(* Specification of extract_url_lists on its own: applied once to a tree   *)
(* of mappings, sequences and leaves of depth at most MaxDepth             *)
(***************************************************************************)
MaxDepth ==
    2

Leaves ==
    {Str("u1"), Str("u2"), Num(1)}

TreeKeys ==
    {"downloadAddr", "playAddr"}

RECURSIVE Trees(_)
\* the leaves, the empty containers, and the containers of one or two
\* members of which one is a tree of depth d - 1
Trees(d) ==
    IF d = 0 THEN Leaves \cup {Dict(<< >>), List(<< >>)}
    ELSE LET T == Trees(d - 1)
         IN  T
             \cup { Dict(<< << k, t >> >>) : k \in TreeKeys, t \in T }
             \cup { Dict(<< << kk[1], t >>, << kk[2], l >> >>) :
                      kk \in { x \in TreeKeys \X TreeKeys : x[1] # x[2] },
                      t \in T, l \in Leaves }
             \cup { Dict(<< << kk[1], l >>, << kk[2], t >> >>) :
                      kk \in { x \in TreeKeys \X TreeKeys : x[1] # x[2] },
                      t \in T, l \in Leaves }
             \cup { List(<< t >>) : t \in T }
             \cup { List(<< t, l >>) : t \in T, l \in Leaves }
             \cup { List(<< l, t >>) : t \in T, l \in Leaves }

\* urls = extract_url_lists(data), and the return of the list
CollectCall ==
    /\ pc = "call"
    /\ pc' = "returned"
    /\ fn_out' = extract_url_lists(fn_arg)
    /\ UNCHANGED << videoVars, session_headers, session_cookies, infoVars, ret,
                    bytesVars, listVars, fn_arg >>

InitCollect ==
    /\ pc = "call"
    /\ NoVideo
    /\ InitCalls
    /\ InitList
    /\ fn_arg \in Trees(MaxDepth)
    /\ fn_out = None

NextCollect ==
    CollectCall

SpecCollect ==
    InitCollect /\ [][NextCollect]_vars

(***************************************************************************)
(* Specification of the media validation on its own: the condition of      *)
(* lines 224 and 262, applied once to a buffer of at most MaxBufLen bytes  *)
(* that holds b'ftyp' at some offset or not at all                         *)
(***************************************************************************)
MaxBufLen ==
    40

Buffers ==
    { Body(off, len, 0) : off \in -1..MaxBufLen, len \in 0..MaxBufLen }

\* fn_out is True when the buffer is refused
ValidateCall ==
    /\ pc = "call"
    /\ pc' = "returned"
    /\ fn_out' = NotVideo(fn_arg)
    /\ UNCHANGED << videoVars, session_headers, session_cookies, infoVars, ret,
                    bytesVars, listVars, fn_arg >>

InitValidate ==
    /\ pc = "call"
    /\ NoVideo
    /\ InitCalls
    /\ InitList
    /\ fn_arg \in Buffers
    /\ fn_out = None

NextValidate ==
    ValidateCall

SpecValidate ==
    InitValidate /\ [][NextValidate]_vars

(***************************************************************************)
(* Video.comments and Video.related_videos: the async generators, taken    *)
(* one step at a time by a caller that consumes them to their end          *)
(***************************************************************************)
MaxCount ==
    2

MaxPage ==
    3

AllItemNames ==
    << "e1", "e2", "e3", "e4", "e5", "e6" >>

\* the name of the list in a response: lines 343 and 392
ListKey(kind) ==
    IF kind = "comments" THEN "comments" ELSE "itemList"

\* what make_request returns: None, or a mapping that may hold the list of
\* 0..MaxPage entries, has_more and cursor
ListResponses(kind) ==
    {None}
    \cup { Dict(list \o more \o cur) :
             list \in { << >> } \cup
                      { << << ListKey(kind),
                              List([k \in 1..n |-> Str(AllItemNames[k])]) >> >> :
                          n \in 0..MaxPage },
             more \in IF kind = "comments"
                      THEN { << >>, << << "has_more", Num(0) >> >>,
                             << << "has_more", Num(1) >> >> }
                      ELSE { << >> },
             cur \in IF kind = "comments"
                     THEN { << >>, << << "cursor", Num(20) >> >> }
                     ELSE { << >> } }

\* the call of the generator function and the start of its body:
\* lines 323 and 377
ListCall(kind, n, c) ==
    /\ pc = "idle"
    /\ pc' = "while"
    /\ listing' = kind
    /\ count' = n
    /\ cursor' = c
    /\ found' = 0
    /\ emitted' = << >>
    /\ UNCHANGED << videoVars, session_headers, session_cookies, infoVars, ret,
                    bytesVars, page_resp, pending, fnVars >>

\* while found < count is true: the request and the test of its response,
\* lines 324-341 and 378-390
ListRequest(resp) ==
    /\ pc = "while"
    /\ found < count
    /\ page_resp' = resp
    /\ IF IsNone(resp)
       THEN /\ pc' = "done"
            /\ ret' = Raise("InvalidResponseException", 0)
            /\ UNCHANGED pending
       ELSE /\ pc' = "for"
            /\ ret' = NoRet
            /\ pending' = Get(resp, ListKey(listing), List(<< >>)).v
    /\ UNCHANGED << videoVars, session_headers, session_cookies, infoVars,
                    bytesVars, listing, count, cursor, found, emitted, fnVars >>

\* while found < count is false: the generator ends
ListExhausted ==
    /\ pc = "while"
    /\ ~(found < count)
    /\ pc' = "done"
    /\ ret' = Return(None)
    /\ UNCHANGED << videoVars, session_headers, session_cookies, infoVars,
                    bytesVars, listVars, fnVars >>

\* one turn of the for loop: the yield of the next entry and, when the
\* caller asks for more, found += 1 (lines 343-345 and 392-394)
ListYield ==
    /\ pc = "for"
    /\ pending # << >>
    /\ emitted' = Append(emitted, Head(pending))
    /\ pending' = Tail(pending)
    /\ found' = found + 1
    /\ UNCHANGED << pc, videoVars, session_headers, session_cookies, infoVars, ret,
                    bytesVars, listing, count, cursor, page_resp, fnVars >>

\* the end of the for loop: lines 347-350 in comments, nothing in
\* related_videos, then back to the while
ListEndPage ==
    /\ pc = "for"
    /\ pending = << >>
    /\ IF listing = "comments" /\ ~Truthy(Get(page_resp, "has_more", Num(0)))
       THEN /\ pc' = "done"
            /\ ret' = Return(None)
            /\ UNCHANGED cursor
       ELSE /\ pc' = "while"
            /\ ret' = NoRet
            /\ cursor' = IF listing = "comments"
                         THEN Get(page_resp, "cursor", None)
                         ELSE cursor
    /\ UNCHANGED << videoVars, session_headers, session_cookies, infoVars,
                    bytesVars, listing, count, found, page_resp, pending, emitted,
                    fnVars >>

InitListing ==
    /\ pc = "idle"
    /\ Constructed(Str("v1"), None, None)
    /\ InitCalls
    /\ InitList
    /\ InitFn

NextListing ==
    \/ /\ pc = "idle"
       /\ \E kind \in {"comments", "related_videos"}, n \in 0..MaxCount :
            ListCall(kind, n, Num(0))
    \/ /\ pc = "while"
       /\ \E resp \in ListResponses(listing) : ListRequest(resp)
    \/ ListExhausted
    \/ ListYield
    \/ ListEndPage

SpecListing ==
    InitListing /\ [][NextListing]_vars

\* the caller consumes the generator to its end and every request is
\* answered: a step that can be taken is taken
SpecListingFair ==
    SpecListing /\ WF_vars(NextListing)

(***************************************************************************)
(* Properties of Video.bytes                                               *)
(***************************************************************************)
\* the 4-byte signature 'ftyp' lies entirely inside the first 32 bytes of b
SignatureInPrefix(b) ==
    \E off \in 0..(32 - 4) :
        /\ off + 4 <= Len(b)
        /\ b[off + 1] = 102
        /\ b[off + 2] = 116
        /\ b[off + 3] = 121
        /\ b[off + 4] = 112

\* the Content-Type header of the response a mentions video
ContentTypeIsVideo(a) ==
    \E n \in 1..Len(a.headers.v) :
        /\ a.headers.v[n][1] = "Content-Type"
        /\ \E m \in 1..Len(a.headers.v[n][2]) : a.headers.v[n][2][m] = "video"

\* p is a prefix of s
IsPrefix(p, s) ==
    /\ Len(p) <= Len(s)
    /\ SubSeq(s, 1, Len(p)) = p

\* the response of the last request of the call
LastResponse ==
    attempts[Len(attempts)].resp

\* C1: in streaming mode, for a candidate answered with 200 whose first
\* chunk passes validation, what the caller has received from the returned
\* generator is at every moment a prefix of the body of the response, and
\* is exactly that body once the generator is exhausted (the first chunk
\* occurs once, nothing is dropped, repeated or reordered).
C1_StreamIsExactlyTheBody ==
    (stream /\ ret = Return(Generator)) =>
        /\ IsPrefix(Flatten(yielded), LastResponse.content)
        /\ (vsg_pc = "done" => Flatten(yielded) = LastResponse.content)

\* a streaming candidate answered with 200 whose first chunk is absent or
\* fails validation
InvalidStreamCandidate(a) ==
    /\ a.transport = "ok"
    /\ a.status = 200
    /\ ~SignatureInPrefix(a.content)

\* C2: in streaming mode a candidate whose first chunk is absent or lacks
\* 'ftyp' in its first 32 bytes is never the one whose generator is
\* returned, none of its bytes reaches the caller, and the call goes on to
\* the next candidate when there is one; a returned generator yields first
\* a chunk that passed validation.
C2_InvalidStreamNeverExposed ==
    stream =>
        /\ \A k \in 1..Len(attempts) :
             InvalidStreamCandidate(attempts[k].resp) =>
                /\ ~(k = Len(attempts) /\ ret.value = Generator)
                /\ \A n \in 1..Len(yielded) :
                      /\ yielded[n] # << >>
                      /\ yielded[n] # attempts[k].resp.content
                /\ \/ k < Len(attempts)
                   \/ pc = "loop" /\ i = k + 1 /\ i <= Len(urls)
                   \/ pc = "done" /\ k = Len(urls) /\ ret = Return(None)
        /\ ret.value = Generator =>
             /\ SignatureInPrefix(first)
             /\ \A n \in 1..Len(yielded) : yielded[n] = LastResponse.content
             /\ (yielded # << >> => yielded[1] = first)

\* an invalid candidate was skipped and the caller is receiving the stream
\* of a later one
C2_Witness ==
    /\ stream
    /\ Len(attempts) >= 2
    /\ InvalidStreamCandidate(attempts[1].resp)
    /\ Len(attempts[1].resp.content) > 0
    /\ ret = Return(Generator)
    /\ yielded # << >>

\* a candidate that yields validated media in the mode of the call
Validated(a) ==
    /\ a.transport = "ok"
    /\ a.status = 200
    /\ SignatureInPrefix(a.content)
    /\ (stream \/ ContentTypeIsVideo(a))

\* C3: when no candidate yields validated media (an empty candidate list,
\* or every candidate failed), in either mode, Video.bytes ends by raising
\* NoValidMedia and never completes normally.
C3_NoValidMediaIsRaised ==
    (/\ pc = "done"
     /\ IsDict(as_dict)
     /\ \A k \in 1..Len(attempts) : ~Validated(attempts[k].resp)) =>
        /\ ret.kind = "raise"
        /\ ret.exc = "NoValidMedia"

\* C4: in whole-body mode the candidates are requested in list order, every
\* candidate before the last requested one failed one of the three
\* conditions (status 200, Content-Type containing video, non-empty body
\* with 'ftyp' in its first 32 bytes), a candidate meeting all three ends
\* the call with its body as the result, a candidate failing one is
\* discarded, and no other bytes are ever returned.
C4_WholeBodyFirstValid ==
    (~stream /\ IsDict(as_dict)) =>
        /\ \A k \in 1..Len(attempts) :
             /\ k <= Len(urls)
             /\ attempts[k].url = urls[k]
             /\ k < Len(attempts) => ~Validated(attempts[k].resp)
        /\ (attempts # << >> /\ Validated(LastResponse)) =>
             /\ pc = "done"
             /\ ret = Return(Bytes(LastResponse.content))
        /\ (attempts # << >> /\ ~Validated(LastResponse)) =>
             /\ ret.value.t # "bytes"
             /\ \/ pc = "loop" /\ i = Len(attempts) + 1
                \/ pc = "done" /\ Len(attempts) = Len(urls)
        /\ ret.value.t = "bytes" =>
             /\ attempts # << >>
             /\ Validated(LastResponse)

\* three candidates: the first answered with a status other than 200, the
\* second with a video that fails validation, the third is returned
C4_Witness ==
    /\ ~stream
    /\ Len(attempts) = 3
    /\ attempts[1].resp.transport = "ok"
    /\ attempts[1].resp.status # 200
    /\ attempts[2].resp.status = 200
    /\ ContentTypeIsVideo(attempts[2].resp)
    /\ ~SignatureInPrefix(attempts[2].resp.content)
    /\ ret = Return(Bytes(attempts[3].resp.content))

\* a failure confined to candidate k: a transport error in either mode, a
\* status other than 200 in streaming mode
CandidateFailure(a) ==
    \/ a.transport = "error"
    \/ stream /\ a.status # 200

\* C5: a transport error on a candidate (either mode) or a status other than
\* 200 (streaming mode) never ends Video.bytes with an exception: the call
\* goes on to the next candidate, or ends normally when that candidate was
\* the last one.
C5_CandidateFailureIsLocal ==
    IsDict(as_dict) =>
        /\ ret.kind # "raise"
        /\ \A k \in 1..Len(attempts) :
             CandidateFailure(attempts[k].resp) =>
                \/ k < Len(attempts)
                \/ pc = "loop" /\ i = k + 1 /\ i <= Len(urls)
                \/ pc = "done" /\ k = Len(urls) /\ ret.kind = "return"

\* streaming: a transport error, then a 403, then a third request
C5_Witness ==
    /\ stream
    /\ Len(attempts) = 3
    /\ attempts[1].resp.transport = "error"
    /\ attempts[2].resp.transport = "ok"
    /\ attempts[2].resp.status # 200

\* whole-body: a transport error on the first candidate, the second requested
C5_WitnessWholeBody ==
    /\ ~stream
    /\ Len(attempts) >= 2
    /\ attempts[1].resp.transport = "error"

(***************************************************************************)
(* Properties of Video.info                                                *)
(***************************************************************************)
Occurs(text, tok) ==
    \E n \in 1..Len(text) : text[n] = tok

FirstPos(text, tok) ==
    CHOOSE n \in 1..Len(text) :
        /\ text[n] = tok
        /\ \A m \in 1..(n - 1) : text[m] # tok

\* the first script element opened by marker open holds one JSON document
\* and is closed
ScriptWellFormed(text, open) ==
    /\ Occurs(text, open)
    /\ LET n == FirstPos(text, open)
       IN  /\ n + 2 <= Len(text)
           /\ text[n + 1].t = "json"
           /\ text[n + 2] = ScriptClose

\* the JSON document of that element
ScriptPayload(text, open) ==
    text[FirstPos(text, open) + 1].v

\* x is an item: a mapping with its id field
IsItem(x) ==
    /\ IsDict(x)
    /\ HasKey(x, "id")

\* the page carries a well-formed LEGACY payload with an item for id
LegacyWellFormed(text, id) ==
    /\ ScriptWellFormed(text, SigiOpen)
    /\ LET d == ScriptPayload(text, SigiOpen)
       IN  /\ IsDict(d)
           /\ HasKey(d, "ItemModule")
           /\ IsDict(Lookup(d, "ItemModule"))
           /\ IsStr(id)
           /\ HasKey(Lookup(d, "ItemModule"), id.v)
           /\ IsItem(Lookup(Lookup(d, "ItemModule"), id.v))

LegacyPayloadItem(text, id) ==
    Lookup(Lookup(ScriptPayload(text, SigiOpen), "ItemModule"), id.v)

\* C6: a call of Video.info that fetches a page with status 200 carrying a
\* well-formed LEGACY payload with ItemModule[id] = X returns X, leaves X
\* in as_dict, and never searches the page for the REHYDRATION marker,
\* whatever optional fields X has.
C6_LegacyItemReturned ==
    [][ (/\ pc = "idle"
         /\ pc' = "done"
         /\ r'.status = 200
         /\ LegacyWellFormed(r'.text, vid)) =>
            /\ ret' = Return(LegacyPayloadItem(r'.text, vid))
            /\ as_dict' = LegacyPayloadItem(r'.text, vid)
            /\ \A n \in 1..Len(scanned') : scanned'[n] # RehydrationOpen ]_vars

\* webapp.video-detail of a REHYDRATION payload whose mappings are mappings
DetailOf(d) ==
    Get(Get(d, "__DEFAULT_SCOPE__", Dict(<< >>)), "webapp.video-detail", Dict(<< >>))

HasDetail(d) ==
    /\ IsDict(d)
    /\ IsDict(Get(d, "__DEFAULT_SCOPE__", Dict(<< >>)))
    /\ IsDict(DetailOf(d))

\* statusCode is 0 or absent
StatusOk(d) ==
    HasKey(DetailOf(d), "statusCode") => Lookup(DetailOf(d), "statusCode") = Num(0)

\* the page lacks the LEGACY marker and carries a well-formed REHYDRATION
\* payload with status 0 and an item
RehydrationWellFormed(text) ==
    /\ ~Occurs(text, SigiOpen)
    /\ ScriptWellFormed(text, RehydrationOpen)
    /\ LET d == ScriptPayload(text, RehydrationOpen)
       IN  /\ HasDetail(d)
           /\ StatusOk(d)
           /\ HasKey(DetailOf(d), "itemInfo")
           /\ IsDict(Lookup(DetailOf(d), "itemInfo"))
           /\ HasKey(Lookup(DetailOf(d), "itemInfo"), "itemStruct")
           /\ IsItem(Lookup(Lookup(DetailOf(d), "itemInfo"), "itemStruct"))

RehydrationPayloadItem(text) ==
    Lookup(Lookup(DetailOf(ScriptPayload(text, RehydrationOpen)), "itemInfo"),
           "itemStruct")

\* C7: a call of Video.info that fetches a page with status 200 lacking the
\* LEGACY open marker and carrying a well-formed REHYDRATION payload whose
\* statusCode is 0 or absent and whose itemInfo.itemStruct is present
\* returns that itemStruct and leaves it in as_dict.
C7_RehydrationItemReturned ==
    [][ (/\ pc = "idle"
         /\ pc' = "done"
         /\ r'.status = 200
         /\ RehydrationWellFormed(r'.text)) =>
            /\ ret' = Return(RehydrationPayloadItem(r'.text))
            /\ as_dict' = RehydrationPayloadItem(r'.text) ]_vars

\* the REHYDRATION open marker is missing
NoRehydrationMarker(text) ==
    ~Occurs(text, RehydrationOpen)

\* the closing marker is missing after the first REHYDRATION open marker
NoRehydrationClose(text) ==
    /\ Occurs(text, RehydrationOpen)
    /\ \A n \in (FirstPos(text, RehydrationOpen) + 1)..Len(text) :
          text[n] # ScriptClose

\* statusCode is present and not 0
BadStatus(text) ==
    /\ ScriptWellFormed(text, RehydrationOpen)
    /\ HasDetail(ScriptPayload(text, RehydrationOpen))
    /\ ~StatusOk(ScriptPayload(text, RehydrationOpen))

\* itemInfo.itemStruct is absent: no itemInfo, or an itemInfo mapping with
\* no itemStruct or a null one
NoItemStruct(text) ==
    /\ ScriptWellFormed(text, RehydrationOpen)
    /\ HasDetail(ScriptPayload(text, RehydrationOpen))
    /\ StatusOk(ScriptPayload(text, RehydrationOpen))
    /\ LET detail == DetailOf(ScriptPayload(text, RehydrationOpen))
       IN  \/ ~HasKey(detail, "itemInfo")
           \/ /\ IsDict(Lookup(detail, "itemInfo"))
              /\ IsNone(Get(Lookup(detail, "itemInfo"), "itemStruct", None))

C8_WitnessNoMarker ==
    /\ pc = "done"
    /\ r.status = 200
    /\ r.text # << >>
    /\ ~Occurs(r.text, SigiOpen)
    /\ NoRehydrationMarker(r.text)
    /\ ret.exc = "InvalidResponseException"

C8_WitnessNoClose ==
    /\ pc = "done"
    /\ r.status = 200
    /\ ~Occurs(r.text, SigiOpen)
    /\ NoRehydrationClose(r.text)
    /\ ret.exc = "InvalidResponseException"

C8_WitnessNoItemStruct ==
    /\ pc = "done"
    /\ r.status = 200
    /\ ~Occurs(r.text, SigiOpen)
    /\ NoItemStruct(r.text)
    /\ HasKey(DetailOf(ScriptPayload(r.text, RehydrationOpen)), "itemInfo")
    /\ ret.exc = "InvalidResponseException"

\* C9: a call of Video.info that fetched a page and failed raised
\* InvalidResponseException: with the status code of the page when that is
\* not 200, for any marker or structure problem otherwise, a malformed
\* LEGACY payload included.
C9_FailuresAreTyped ==
    (pc = "done" /\ r # NoPage /\ ret.kind = "raise") =>
        /\ ret.exc = "InvalidResponseException"
        /\ r.status # 200 => ret.code = r.status

(***************************************************************************)
(* Properties of field derivation                                          *)
(***************************************************************************)
\* data is an item whose fields other than createTime let normalization and
\* construction through
DerivableItem(data) ==
    /\ IsDict(data)
    /\ HasKey(data, "id")
    /\ IsStr(Lookup(data, "id"))
    /\ IsList(Get(data, "challenges", List(<< >>)))

\* x can be coerced to an integer
Coercible(x) ==
    \/ x.t = "int"
    \/ x.t = "str" /\ x.v \in {"1700000000", "7"}

\* C10: for an item without createTime field derivation completes and
\* leaves create_time unset; for an item whose createTime cannot be coerced
\* to an integer it completes and passes the value through; a createTime
\* that can be coerced becomes a timestamp.
C10_CreateTimeOptional ==
    (pc \in {"idle", "failed"} /\ DerivableItem(as_dict)) =>
        LET createTime == Get(as_dict, "createTime", None)
        IN  /\ pc = "idle"
            /\ IsNone(createTime) => create_time = Unset
            /\ (~IsNone(createTime) /\ ~Coercible(createTime)) =>
                  create_time = createTime
            /\ (~IsNone(createTime) /\ Coercible(createTime)) =>
                  create_time.t = "datetime"

(***************************************************************************)
(* Properties of the session cookies                                       *)
(***************************************************************************)
\* C11: a Video.info call that returns has handed the cookies of the page
\* response to the session exactly once, after the item was extracted and
\* normalized, and the jar is its old content plus those cookies; a call
\* that fails at any stage makes no such call and leaves the jar as it was
C11_CookiesMergedOnSuccessOnly ==
    [][(pc = "idle" /\ pc' = "done") =>
          IF ret'.kind = "return"
          THEN /\ as_dict' = ret'.value
               /\ Len(set_cookie_calls') = 1
               /\ set_cookie_calls'[1] = r'.cookies
               /\ session_cookies' = session_cookies \cup r'.cookies
          ELSE /\ set_cookie_calls' = << >>
               /\ session_cookies' = session_cookies]_vars

\* a call returned and the jar holds the old cookie and the one of the page
C11_Witness ==
    /\ pc = "done"
    /\ ret.kind = "return"
    /\ set_cookie_calls = << {"ttwid"} >>
    /\ session_cookies = {"msToken", "ttwid"}

(***************************************************************************)
(* Properties of the connections of Video.bytes                            *)
(***************************************************************************)
\* C12: a connection of a streaming call is open only while the caller is
\* still taking chunks from the candidate it belongs to, or while the
\* closing of the generators is under way; it is released once the
\* candidate was rejected, the stream ended, or the caller stopped
C12_ConnectionReleased ==
    \A k \in 1..Len(conns) :
        conns[k] = "open" =>
            /\ k = Len(conns)
            /\ pc = "done"
            /\ caller = "consuming" \/ FinalizePending

(***************************************************************************)
(* Properties of extract_url_lists                                         *)
(***************************************************************************)
RECURSIVE PathsOf(_)
\* the positions of a tree: the sequences of member numbers that lead from
\* its root to a node
PathsOf(node) ==
    { << >> }
    \cup (IF IsDict(node)
          THEN UNION { { << k >> \o p : p \in PathsOf(node.v[k][2]) } :
                         k \in 1..Len(node.v) }
          ELSE IF IsList(node)
          THEN UNION { { << k >> \o p : p \in PathsOf(node.v[k]) } :
                         k \in 1..Len(node.v) }
          ELSE {})

RECURSIVE NodeAt(_, _)
NodeAt(node, p) ==
    IF p = << >> THEN node
    ELSE NodeAt(IF IsDict(node) THEN node.v[Head(p)][2] ELSE node.v[Head(p)],
                Tail(p))

\* the node at p is a string held by a mapping under the key downloadAddr
IsDownloadAddr(root, p) ==
    /\ p # << >>
    /\ LET parent == NodeAt(root, SubSeq(p, 1, Len(p) - 1))
       IN  /\ IsDict(parent)
           /\ parent.v[p[Len(p)]][1] = "downloadAddr"
    /\ IsStr(NodeAt(root, p))

\* p comes before q in document order
Before(p, q) ==
    \E k \in 1..Min(Len(p), Len(q)) :
        /\ p[k] < q[k]
        /\ \A j \in 1..(k - 1) : p[j] = q[j]

C13_WitnessLeaf ==
    /\ pc = "returned"
    /\ fn_arg = Str("u1")
    /\ fn_out = << >>

(***************************************************************************)
(* Properties of the media validation                                      *)
(***************************************************************************)
\* the bytes 'f', 't', 'y', 'p' are at offsets off .. off + 3 of b
FtypAt(b, off) ==
    /\ off + 4 <= Len(b)
    /\ b[off + 1] = 102
    /\ b[off + 2] = 116
    /\ b[off + 3] = 121
    /\ b[off + 4] = 112

\* C14: a buffer is accepted exactly when 'ftyp' occurs in it at an offset
\* of at most 28, that is entirely within its first 32 bytes; the empty
\* buffer and ten zero bytes are refused, forty bytes with 'ftyp' at offset
\* 4 are accepted, forty bytes whose only 'ftyp' is at offset 29 or later
\* are refused
C14_AcceptsSignatureInFirst32 ==
    pc = "returned" =>
        /\ ~fn_out <=> \E off \in 0..28 : FtypAt(fn_arg, off)
        /\ fn_arg = << >> => fn_out
        /\ fn_arg = [n \in 1..10 |-> 0] => fn_out
        /\ (Len(fn_arg) = 40 /\ FtypAt(fn_arg, 4)) => ~fn_out
        /\ (/\ Len(fn_arg) = 40
            /\ \E off \in 29..36 : FtypAt(fn_arg, off)
            /\ \A off \in 0..28 : ~FtypAt(fn_arg, off)) => fn_out

\* forty bytes with 'ftyp' at offset 28 were accepted
C14_Witness ==
    /\ pc = "returned"
    /\ Len(fn_arg) = 40
    /\ FtypAt(fn_arg, 28)
    /\ ~fn_out

\* forty bytes with 'ftyp' at offset 29 were refused
C14_WitnessLate ==
    /\ pc = "returned"
    /\ Len(fn_arg) = 40
    /\ FtypAt(fn_arg, 29)
    /\ fn_out

(***************************************************************************)
(* Properties of the listing generators                                    *)
(***************************************************************************)
\* C15: comments(count = N) hands at most N comments to its caller
C15_AtMostCountComments ==
    listing = "comments" => Len(emitted) <= count

\* C20: a listing generator that is consumed to its end stops
C20_ListingTerminates ==
    <>(pc = "done")

(***************************************************************************)
(* Properties of the order of the requests of Video.bytes                  *)
(***************************************************************************)
\* the strings under downloadAddr of a tree, in document order
DocumentOrderUrls(root) ==
    LET hits == { p \in PathsOf(root) : IsDownloadAddr(root, p) }
    IN  [k \in 1..Cardinality(hits) |->
            NodeAt(root,
                   CHOOSE p \in hits :
                       Cardinality({ q \in hits : Before(q, p) }) = k - 1).v]

\* C16: in one Video.bytes call the k-th request goes to the k-th download
\* address of the item in document order, so each candidate is requested
\* at most once; a request is made only when every earlier candidate was
\* rejected and its connection released, and none after a validated one
C16_CandidatesInOrderOneAtATime ==
    (IsDict(as_dict) /\ pc \in {"loop", "done"}) =>
        /\ Len(attempts) <= Len(DocumentOrderUrls(as_dict))
        /\ \A k \in 1..Len(attempts) :
              /\ attempts[k].url = DocumentOrderUrls(as_dict)[k]
              /\ k < Len(attempts) =>
                    /\ ~Validated(attempts[k].resp)
                    /\ conns[k] = "released"
        /\ pc = "loop" =>
              /\ \A k \in 1..Len(attempts) : ~Validated(attempts[k].resp)
              /\ \A k \in 1..Len(conns) : conns[k] = "released"

\* two candidates were rejected and the third one validated, in streaming
\* mode, and its connection is the only one open
C16_Witness ==
    /\ stream
    /\ pc = "done"
    /\ Len(attempts) = 3
    /\ ~Validated(attempts[1].resp)
    /\ ~Validated(attempts[2].resp)
    /\ Validated(attempts[3].resp)
    /\ conns = << "released", "released", "open" >>

(***************************************************************************)
(* Properties of the identifier                                            *)
(***************************************************************************)
\* C17: a Video object that its constructor returned, and one on which
\* info() returned normally, has an id that is set and is not None
C17_UsableVideoHasId ==
    (pc \in {"idle", "done"} /\ ret.kind # "raise") =>
        /\ vid # Unset
        /\ ~IsNone(vid)

(***************************************************************************)
(* Properties of the state that calls share                                *)
(***************************************************************************)
\* C18: no step of a Video.bytes call changes the header mapping or the
\* cookie jar of the session
C18_BytesLeavesSessionAlone ==
    [][/\ session_headers' = session_headers
       /\ session_cookies' = session_cookies]_vars

\* C19: a Video.info call that raises leaves as_dict, id, url and the
\* derived fields of the Video as they were
C19_FailedInfoLeavesVideoUnchanged ==
    [][(pc = "idle" /\ pc' = "done" /\ ret'.kind = "raise") =>
          /\ as_dict' = as_dict
          /\ vid' = vid
          /\ vurl' = vurl
          /\ create_time' = create_time
          /\ stats' = stats
          /\ author' = author
          /\ sound' = sound
          /\ hashtags' = hashtags]_vars

====
